---------------------------- MODULE Spec2Model ----------------------------
(***************************************************************************)
(* Model of src/src/index.ts: the GET /:formId/filteredResponses handler   *)
(* (fetch loop, result cache with FIFO queue, filter step, windowing).     *)
(*                                                                         *)
(* Node runs the handler single-threaded: the code between two `await`s    *)
(* is one atomic step.  The only await of the handler is the page request  *)
(* of the fetch loop (line 134), so a request is a sequence of steps       *)
(*   arrival .. first getPage | page response .. next getPage | page       *)
(*   response .. res.send | page failure .. res.json                       *)
(* and a request that hits the cache runs from arrival to res.send in one  *)
(* step.  Requests interleave only at these points.                        *)
(***************************************************************************)
EXTENDS Integers, Sequences, FiniteSets, TLC

VARIABLES
    cache,      \* const cache = new Map()      (line 65): key -> dataset
    queue,      \* const queue: string[] = []   (line 66): keys, oldest first
    req,        \* the requests being served: slot -> handler frame
    issued,     \* environment: highest identity index served (cached) so far
    puts,       \* history: number of cacheData calls made so far
    insertedAt, \* history: key -> number of the cacheData call that set its held value
    fetched,    \* history: identity -> the dataset its latest complete fetch assembled
    fIn,        \* filter-step study: the inputs (dataset, filters parameter)
    fOut,       \* filter-step study: the output, once the step has run
    wIn,        \* windowing study: the inputs (dataset, filters, offset, limit)
    wOut        \* windowing study: the payload, once the handler's tail has run

vars == <<cache, queue, req, issued, puts, insertedAt, fetched, fIn, fOut, wIn, wOut>>

(***************************************************************************)
(* Bounds of the model.                                                    *)
(***************************************************************************)
\* requests that may be in flight at the same time
NumSlots == 2
\* distinct Query Identities the clients ever ask for
NumIdentities == 12
\* identities 1..NumRevisit may be asked for again at any time
NumRevisit == 1
\* cap on the number of cacheData calls of a run (bounds the history)
MaxPuts == 12
\* filter-step study: longest dataset, longest question list, longest Filter Set
MaxData == 2
MaxQuestions == 2
MaxFilters == 2
\* windowing study: longest dataset, largest offset, largest limit below the default
MaxWindowData == 3
MaxOffset == 3
MaxLimit == 3

(***************************************************************************)
(* Program constants.                                                      *)
(***************************************************************************)
maxLen == 10
\* offset += 150 (line 136)
pageStep == 150
\* let resLimit = 150 (line 147)
defaultLimit == 150
\* let totalPages = Number.POSITIVE_INFINITY (line 125), as a value no pageCount takes
POSITIVE_INFINITY == -1

SeqUpTo(S, n) == UNION {[1..k -> S] : k \in 0..n}

Min(a, b) == IF a < b THEN a ELSE b
Max(a, b) == IF a > b THEN a ELSE b

(***************************************************************************)
(* Values: number | string (lines 28-32, 85-87).  A string is the sequence *)
(* of its UTF-16 code units.  Both kinds share one record shape.           *)
(***************************************************************************)
Num(n) == [t |-> "number", n |-> n, s |-> <<>>]
Str(s) == [t |-> "string", n |-> 0, s |-> s]

\* JavaScript === on number | string: same type and same value
StrictEquals(a, b) ==
    /\ a.t = b.t
    /\ IF a.t = "number" THEN a.n = b.n ELSE a.s = b.s

\* code-unit order of two strings (the < of two string operands)
RECURSIVE StrLess(_, _)
StrLess(a, b) ==
    IF b = <<>> THEN FALSE
    ELSE IF a = <<>> THEN TRUE
    ELSE IF Head(a) # Head(b) THEN Head(a) < Head(b)
    ELSE StrLess(Tail(a), Tail(b))

IsDigit(c) == c \in 48..57

RECURSIVE DigitsValue(_, _)
DigitsValue(s, acc) ==
    IF s = <<>> THEN acc ELSE DigitsValue(Tail(s), 10 * acc + (Head(s) - 48))

\* ToNumber of an operand of < or >: a number is itself; "" is 0; a string of
\* decimal digits is its value; any other string over the model's alphabet
\* (digits and letters) is NaN.
ToNumber(a) ==
    IF a.t = "number" THEN [nan |-> FALSE, n |-> a.n]
    ELSE IF \A k \in DOMAIN a.s : IsDigit(a.s[k])
         THEN [nan |-> FALSE, n |-> DigitsValue(a.s, 0)]
         ELSE [nan |-> TRUE, n |-> 0]

\* a < b that is false whenever the operands' types differ
LessThanSameTypeOnly(a, b) ==
    IF a.t = "string" /\ b.t = "string" THEN StrLess(a.s, b.s)
    ELSE a.t = "number" /\ b.t = "number" /\ a.n < b.n

\* JavaScript a < b on number | string
LessThan(a, b) ==
    IF a.t = "string" /\ b.t = "string" THEN StrLess(a.s, b.s)
    ELSE LET x == ToNumber(a)
             y == ToNumber(b)
         IN ~x.nan /\ ~y.nan /\ x.n < y.n

\* JavaScript a > b
GreaterThan(a, b) == LessThan(b, a)

(***************************************************************************)
(* The filter step (lines 155-186).                                        *)
(***************************************************************************)
\* the `filters` query parameter: absent, or the JSON text of a clause list
NoFilters == [present |-> FALSE, clauses |-> <<>>]
Filters(cs) == [present |-> TRUE, clauses |-> cs]

\* lines 157-160: conditions.set(filter.id, filter) for each clause in order,
\* so of several clauses with one id the last one stays
Conditions(clauses) ==
    [qid \in {clauses[k].id : k \in DOMAIN clauses} |->
        LET last == CHOOSE k \in DOMAIN clauses :
                        /\ clauses[k].id = qid
                        /\ \A j \in DOMAIN clauses : clauses[j].id = qid => j <= k
        IN clauses[last]]

\* the switch with the break of the 'equals' case missing: the case falls
\* through and pushes the does_not_equal check as well
CheckMissingBreak(question, condition) ==
    CASE condition.condition = "equals" ->
             /\ StrictEquals(question.value, condition.value)
             /\ ~StrictEquals(question.value, condition.value)
      [] condition.condition = "does_not_equal" ->
             ~StrictEquals(question.value, condition.value)
      [] condition.condition = "greater_than" ->
             GreaterThan(question.value, condition.value)
      [] condition.condition = "less_than" ->
             LessThan(question.value, condition.value)

\* lines 167-180: the check pushed for one question that has a condition
Check(question, condition) ==
    CASE condition.condition = "equals" ->
             StrictEquals(question.value, condition.value)
      [] condition.condition = "does_not_equal" ->
             ~StrictEquals(question.value, condition.value)
      [] condition.condition = "greater_than" ->
             GreaterThan(question.value, condition.value)
      [] condition.condition = "less_than" ->
             LessThan(question.value, condition.value)

\* a record kept only when some check was pushed and none is false
KeepResponseNeedsACheck(response, conditions) ==
    /\ \E k \in DOMAIN response.questions : response.questions[k].id \in DOMAIN conditions
    /\ \A k \in DOMAIN response.questions :
           LET question == response.questions[k]
           IN question.id \in DOMAIN conditions
                  => Check(question, conditions[question.id])

\* lines 162-184: checks of all questions that have a condition; kept when
\* no check is false
KeepResponse(response, conditions) ==
    \A k \in DOMAIN response.questions :
        LET question == response.questions[k]
        IN question.id \in DOMAIN conditions
               => Check(question, conditions[question.id])

\* lines 155-186
FilterStep(responses, filters) ==
    IF filters.present
    THEN LET conditions == Conditions(filters.clauses)
         IN SelectSeq(responses, LAMBDA r : KeepResponse(r, conditions))
    ELSE responses


(***************************************************************************)
(* Windowing and the payload (lines 146-153, 188-192).                     *)
(***************************************************************************)
\* an optional integer query parameter (offset, limit), already validated
Absent == [present |-> FALSE, n |-> 0]
Given(n) == [present |-> TRUE, n |-> n]

\* Array.prototype.slice(start, end) on a sequence (positions from 0)
Slice(seq, start, end) ==
    LET len == Len(seq)
        from == IF start < 0 THEN Max(len + start, 0) ELSE Min(start, len)
        to == IF end < 0 THEN Max(len + end, 0) ELSE Min(end, len)
    IN IF from < to THEN SubSeq(seq, from + 1, to) ELSE <<>>

\* what res.send writes for a pageCount that is Infinity or NaN (x / 0):
\* JSON has neither, so the field is null
JsonNull == -1

\* Math.ceil(length / resLimit) as it appears in the sent JSON (line 191)
PageCount(length, resLimit) ==
    IF resLimit = 0 THEN JsonNull
    ELSE (length + resLimit - 1) \div resLimit

NoPayload == [kind |-> "none", responses |-> <<>>, totalResponses |-> 0, pageCount |-> 0]
\* res.json({ error: 'Request failed!' }) (line 140)
ErrorPayload == [kind |-> "Request failed!", responses |-> <<>>, totalResponses |-> 0, pageCount |-> 0]

\* the window with the limit taken for the slice's end index
WindowEndIsLimit(responses, offset, limit) ==
    LET resOffset == IF offset.present THEN offset.n ELSE 0
        resLimit == IF limit.present THEN limit.n ELSE defaultLimit
    IN [kind |-> "data",
        responses |-> Slice(responses, resOffset, resLimit),
        totalResponses |-> Len(responses),
        pageCount |-> PageCount(Len(responses), resLimit)]

\* lines 146-153 and 188-192
Window(responses, offset, limit) ==
    LET resOffset == IF offset.present THEN offset.n ELSE 0
        resLimit == IF limit.present THEN limit.n ELSE defaultLimit
    IN [kind |-> "data",
        responses |-> Slice(responses, resOffset, resLimit + resOffset),
        totalResponses |-> Len(responses),
        pageCount |-> PageCount(Len(responses), resLimit)]

\* lines 146-192: the handler from the dataset to the payload
Respond(responses, query) ==
    Window(FilterStep(responses, query.filters), query.offset, query.limit)

(***************************************************************************)
(* The result cache (lines 65-79).  A Map is a function on its key set.    *)
(***************************************************************************)
MapSet(m, k, v) == [x \in DOMAIN m \cup {k} |-> IF x = k THEN v ELSE m[x]]
MapDelete(m, k) == [x \in DOMAIN m \ {k} |-> m[x]]

\* cacheData with the newest queue slot dropped instead of the oldest
cacheDataDropsNewest(c, q, key, responses) ==
    LET full == Len(q) = maxLen
        c1 == IF full THEN MapDelete(c, q[Len(q)]) ELSE c
        q1 == IF full THEN SubSeq(q, 1, Len(q) - 1) ELSE q
    IN [cache |-> MapSet(c1, key, responses), queue |-> Append(q1, key)]

\* cacheData with the capacity test off by one (> instead of ===)
cacheDataLateEviction(c, q, key, responses) ==
    LET full == Len(q) > maxLen
        c1 == IF full THEN MapDelete(c, Head(q)) ELSE c
        q1 == IF full THEN Tail(q) ELSE q
    IN [cache |-> MapSet(c1, key, responses), queue |-> Append(q1, key)]

\* cacheData that takes no new queue slot for a key the map already holds
cacheDataSkipsHeldKey(c, q, key, responses) ==
    IF key \in DOMAIN c
    THEN [cache |-> MapSet(c, key, responses), queue |-> q]
    ELSE LET full == Len(q) = maxLen
             c1 == IF full THEN MapDelete(c, Head(q)) ELSE c
             q1 == IF full THEN Tail(q) ELSE q
         IN [cache |-> MapSet(c1, key, responses), queue |-> Append(q1, key)]

\* lines 71-79: the map and the queue after cacheData(key, responses)
cacheData(c, q, key, responses) ==
    LET full == Len(q) = maxLen
        c1 == IF full THEN MapDelete(c, Head(q)) ELSE c
        q1 == IF full THEN Tail(q) ELSE q
    IN [cache |-> MapSet(c1, key, responses), queue |-> Append(q1, key)]

(***************************************************************************)
(* Query Identity and its key (lines 69, 105-112, 126).                    *)
(***************************************************************************)
\* the value of a query parameter the request does not carry
UNDEFINED == "<undefined>"

\* createHash that leaves the status out of the key
createHashNoStatus(params) ==
    SelectSeq(<< <<"formId", params.formId>>,
                 <<"afterDate", params.afterDate>>,
                 <<"beforeDate", params.beforeDate>>,
                 <<"includeEditLink", params.includeEditLink>>,
                 <<"sort", params.sort>> >>,
              LAMBDA kv : kv[2] # UNDEFINED)

\* JSON.stringify of { formId, afterDate, beforeDate, status, includeEditLink,
\* sort }: the properties in this order, those that are undefined left out.
\* The text is modelled by the sequence of its name/value pairs.
createHash(params) ==
    SelectSeq(<< <<"formId", params.formId>>,
                 <<"afterDate", params.afterDate>>,
                 <<"beforeDate", params.beforeDate>>,
                 <<"status", params.status>>,
                 <<"includeEditLink", params.includeEditLink>>,
                 <<"sort", params.sort>> >>,
              LAMBDA kv : kv[2] # UNDEFINED)

\* The identities the clients use, numbered 1..NumIdentities.  Identity i
\* differs from the plain request for form A (form E from the 13th on) in
\* parameter (i-1) % 6, and takes that parameter's ((i-1) \div 6)-th value.
Variant(i, k, values, plain) ==
    IF (i - 1) % 6 = k THEN values[(((i - 1) \div 6) % Len(values)) + 1] ELSE plain

IdentityOf(i) ==
    [formId |-> Variant(i, 0, <<"formB", "formC", "formD">>,
                        IF i > 12 THEN "formE" ELSE "formA"),
     afterDate |-> Variant(i, 1, <<"2024-01-01", "2024-02-01", "2024-03-01">>, UNDEFINED),
     beforeDate |-> Variant(i, 2, <<"2024-06-01", "2024-07-01", "2024-08-01">>, UNDEFINED),
     status |-> Variant(i, 3, <<"in_progress", "finished">>, UNDEFINED),
     includeEditLink |-> Variant(i, 4, <<"true", "false">>, UNDEFINED),
     sort |-> Variant(i, 5, <<"asc", "desc">>, UNDEFINED)]

Identities == 1..NumIdentities

KeyOf(i) == createHash(IdentityOf(i))

(***************************************************************************)
(* The remote paged API (black box; lines 114-122, 134-137).  The dataset  *)
(* of an identity is a sequence of pages; page j (from 0) answers the      *)
(* request with offset 150 * j.  A page stands for up to 150 records and   *)
(* is modelled with one or two.                                            *)
(***************************************************************************)
RemotePageCount(i) ==
    CASE i % 4 = 1 -> 1
      [] i % 4 = 2 -> 2
      [] i % 4 = 3 -> 3
      [] OTHER -> 151

Submission(i, j, k) ==
    [submissionId |-> 1000 * i + 10 * j + k,
     questions |-> << [id |-> "q1", value |-> Num((i + j + k) % 3)],
                      [id |-> "q2", value |-> Str(<<97 + (k % 2)>>)] >>]

RemotePage(i, j) ==
    IF j = 0 THEN <<Submission(i, j, 1), Submission(i, j, 2)>>
    ELSE IF j < RemotePageCount(i) THEN <<Submission(i, j, 1)>>
    ELSE <<>>

\* resp.data of a successful page request
RemoteResponse(i, offset) ==
    [responses |-> RemotePage(i, offset \div pageStep),
     pageCount |-> RemotePageCount(i)]

\* pages no request can ever fetch: the second page of identity 3, whose
\* dataset has 3 pages
Unfetchable(i, j) == i = 3 /\ j = 1

\* the whole dataset of an identity: all its pages in order
RECURSIVE PagesUpTo(_, _)
PagesUpTo(i, n) ==
    IF n = 0 THEN <<>> ELSE PagesUpTo(i, n - 1) \o RemotePage(i, n - 1)


(***************************************************************************)
(* The handler (lines 101-193).                                            *)
(***************************************************************************)
Slots == 1..NumSlots

\* a slot serving no request
IdleFrame ==
    [pc |-> "idle", id |-> 0, offset |-> 0, totalPages |-> POSITIVE_INFINITY,
     responses |-> <<>>, asked |-> <<>>, hit |-> FALSE, result |-> NoPayload]

\* lines 123-126: the locals of a request for identity i as the handler starts
NewFrame(i) ==
    [pc |-> "fetching", id |-> i, offset |-> 0, totalPages |-> POSITIVE_INFINITY,
     responses |-> <<>>, asked |-> <<>>, hit |-> FALSE, result |-> NoPayload]

\* a loop test that counts the pages taken in rather than the records skipped
LoopContinuesCountingPages(offset, totalPages) ==
    totalPages = POSITIVE_INFINITY \/ offset \div pageStep < totalPages

\* line 132: while (offset < totalPages)
LoopContinues(offset, totalPages) ==
    totalPages = POSITIVE_INFINITY \/ offset < totalPages

\* line 130: responses = [...cache.get(key)]
CacheGet(c, q, key) == c[key]

\* a hit that moves the key to the newest end of the queue (recency order)
QueueAfterHitRefreshes(q, key) ==
    Append(SelectSeq(q, LAMBDA k : k # key), key)

\* lines 128-130: the hit branch reads the map and leaves the queue alone
QueueAfterHit(q, key) == q

\* a catch block that answers with the pages fetched so far
FrameAfterFailureKeepsPages(f) ==
    [f EXCEPT !.pc = "done",
              !.result = Window(f.responses, Absent, Absent)]

\* lines 138-141: the catch of a failed page request
FrameAfterFailure(f) ==
    [f EXCEPT !.pc = "done", !.result = ErrorPayload]

\* lines 135-137: the locals after a page response has arrived
FrameAfterPage(f, resp) ==
    [f EXCEPT !.responses = f.responses \o resp.responses,
              !.offset = f.offset + pageStep,
              !.totalPages = resp.pageCount]

\* the query parameters of the requests that do not take part in the identity
Queries ==
    { [filters |-> NoFilters, offset |-> Absent, limit |-> Absent],
      [filters |-> Filters(<< [id |-> "q1", condition |-> "greater_than", value |-> Num(0)] >>),
       offset |-> Absent, limit |-> Given(1)],
      [filters |-> Filters(<<>>), offset |-> Given(1), limit |-> Absent] }

\* the requests still fetching
Fetching == {s \in Slots : req[s].pc = "fetching"}

\* Slots are interchangeable: a request takes the lowest free one.
FreeSlot(s) ==
    /\ req[s].pc = "idle"
    /\ \A t \in Slots : t < s => req[t].pc # "idle"

\* The clients' requests.  Identities 1..NumRevisit are asked for at any
\* time, also while a request for the same identity is in flight; every
\* other identity is asked for once all identities before it have been
\* served, and by one request at a time.
Askable(i) ==
    /\ i \in Identities
    /\ \/ i <= NumRevisit
       \/ /\ i = issued + 1
          /\ \A t \in Slots : req[t].id # i

\* the filter step writing its result into the array the cache holds
CacheAfterRespondInPlace(c, key, query) ==
    MapSet(c, key, FilterStep(c[key], query.filters))

\* The cache map once the handler's tail has run (lines 130, 161, 189): a
\* hit works on a copy of the cached array, filter() and slice() build new
\* arrays, so the array the cache holds is the one that was stored.
CacheAfterRespond(c, key, query) == c

\* A request arrives and its key is in the cache (lines 128-130, 146-192):
\* the handler runs to res.send without suspending.
ArriveHit(s, i, query) ==
    /\ FreeSlot(s)
    /\ Askable(i)
    /\ KeyOf(i) \in DOMAIN cache
    /\ LET responses == CacheGet(cache, queue, KeyOf(i))
       IN req' = [req EXCEPT ![s] =
                     [NewFrame(i) EXCEPT !.pc = "done", !.hit = TRUE,
                                         !.responses = responses,
                                         !.result = Respond(responses, query)]]
    /\ cache' = CacheAfterRespond(cache, KeyOf(i), query)
    /\ queue' = QueueAfterHit(queue, KeyOf(i))
    /\ UNCHANGED <<issued, puts, insertedAt, fetched, fIn, fOut, wIn, wOut>>

\* a miss that asks for the first two pages at once
ArriveMissAsksTwoPages(s, i) ==
    /\ FreeSlot(s)
    /\ Askable(i)
    /\ puts + Cardinality(Fetching) < MaxPuts
    /\ KeyOf(i) \notin DOMAIN cache
    /\ req' = [req EXCEPT ![s] = [NewFrame(i) EXCEPT !.asked = <<0, pageStep>>]]
    /\ UNCHANGED <<cache, queue, issued, puts, insertedAt, fetched, fIn, fOut, wIn, wOut>>

\* A request arrives and its key is not in the cache (lines 128-134): the
\* loop is entered and the first page is requested.
ArriveMiss(s, i) ==
    /\ FreeSlot(s)
    /\ Askable(i)
    /\ puts + Cardinality(Fetching) < MaxPuts
    /\ KeyOf(i) \notin DOMAIN cache
    /\ LoopContinues(0, POSITIVE_INFINITY)
    /\ req' = [req EXCEPT ![s] = [NewFrame(i) EXCEPT !.asked = <<0>>]]
    /\ UNCHANGED <<cache, queue, issued, puts, insertedAt, fetched, fIn, fOut, wIn, wOut>>

\* a loop that stores the pages taken in so far after every page
PageContinueCachesPages(s) ==
    LET f == req[s]
        after == FrameAfterPage(f, RemoteResponse(f.id, f.offset))
    IN /\ f.pc = "fetching"
       /\ ~Unfetchable(f.id, f.offset \div pageStep)
       /\ LoopContinues(after.offset, after.totalPages)
       /\ req' = [req EXCEPT ![s] = [after EXCEPT !.asked = Append(f.asked, after.offset)]]
       /\ cache' = MapSet(cache, KeyOf(f.id), after.responses)
       /\ UNCHANGED <<queue, issued, puts, insertedAt, fetched, fIn, fOut, wIn, wOut>>

\* A page response arrives and the loop goes on (lines 134-137, 132, 134):
\* the next page is requested.
PageContinue(s) ==
    LET f == req[s]
        after == FrameAfterPage(f, RemoteResponse(f.id, f.offset))
    IN /\ f.pc = "fetching"
       /\ ~Unfetchable(f.id, f.offset \div pageStep)
       /\ LoopContinues(after.offset, after.totalPages)
       /\ req' = [req EXCEPT ![s] = [after EXCEPT !.asked = Append(f.asked, after.offset)]]
       /\ UNCHANGED <<cache, queue, issued, puts, insertedAt, fetched, fIn, fOut, wIn, wOut>>

\* A page response arrives and the loop ends (lines 134-137, 132, 143-192):
\* the dataset is cached, filtered, windowed and sent.
PageFinish(s, query) ==
    LET f == req[s]
        after == FrameAfterPage(f, RemoteResponse(f.id, f.offset))
        key == KeyOf(f.id)
    IN /\ f.pc = "fetching"
       /\ ~Unfetchable(f.id, f.offset \div pageStep)
       /\ ~LoopContinues(after.offset, after.totalPages)
       /\ cache' = CacheAfterRespond(cacheData(cache, queue, key, after.responses).cache,
                                     key, query)
       /\ queue' = cacheData(cache, queue, key, after.responses).queue
       /\ puts' = puts + 1
       /\ insertedAt' = cacheData(insertedAt, queue, key, puts + 1).cache
       /\ req' = [req EXCEPT ![s] =
                     [after EXCEPT !.pc = "done",
                                   !.result = Respond(after.responses, query)]]
       /\ issued' = Max(issued, f.id)
       /\ fetched' = MapSet(fetched, f.id, after.responses)
       /\ UNCHANGED <<fIn, fOut, wIn, wOut>>

\* A page request fails (lines 138-141).
PageFails(s) ==
    /\ req[s].pc = "fetching"
    /\ req' = [req EXCEPT ![s] = FrameAfterFailure(req[s])]
    /\ UNCHANGED <<cache, queue, issued, puts, insertedAt, fetched, fIn, fOut, wIn, wOut>>

\* The response has been delivered; the slot is free for the next request.
Release(s) ==
    /\ req[s].pc = "done"
    /\ req' = [req EXCEPT ![s] = IdleFrame]
    /\ UNCHANGED <<cache, queue, issued, puts, insertedAt, fetched, fIn, fOut, wIn, wOut>>

\* the windowing study before its inputs are drawn
NoWindowStudy == [data |-> <<>>, filters |-> NoFilters, offset |-> Absent, limit |-> Absent]

\* the filter-step study before its inputs are drawn, and before it has run
NoStudy == [data |-> <<>>, filters |-> NoFilters]
NotRun == [done |-> FALSE, responses |-> <<>>]

Init ==
    /\ cache = <<>>
    /\ queue = <<>>
    /\ req = [s \in Slots |-> IdleFrame]
    /\ issued = 0
    /\ puts = 0
    /\ insertedAt = <<>>
    /\ fetched = <<>>
    /\ fIn = NoStudy
    /\ fOut = NotRun
    /\ wIn = NoWindowStudy
    /\ wOut = NoPayload

Next ==
    \/ \E s \in Slots, i \in Identities, query \in Queries : ArriveHit(s, i, query)
    \/ \E s \in Slots, i \in Identities : ArriveMiss(s, i)
    \/ \E s \in Slots : PageContinue(s)
    \/ \E s \in Slots, query \in Queries : PageFinish(s, query)
    \/ \E s \in Slots : PageFails(s)
    \/ \E s \in Slots : Release(s)

\* any number of requests in flight, interleaved at their page requests
Spec == Init /\ [][Next]_vars


\* one request at a time: the next one arrives after the previous response
NextSeq ==
    \/ \E i \in Identities, query \in Queries : ArriveHit(1, i, query)
    \/ \E i \in Identities : ArriveMiss(1, i)
    \/ PageContinue(1)
    \/ \E query \in Queries : PageFinish(1, query)
    \/ PageFails(1)
    \/ Release(1)

SpecSeq == Init /\ [][NextSeq]_vars

\* the page request a fetching request waits for is answered (line 134: the
\* awaited promise settles, by a page or by a failure)
PageReturns(s) ==
    \/ PageContinue(s)
    \/ \E query \in Queries : PageFinish(s, query)
    \/ PageFails(s)

\* the handler under a remote API that answers every page request
SpecLive == Spec /\ \A s \in Slots : WF_vars(PageReturns(s))

(***************************************************************************)
(* The filter step on its own: every dataset and every `filters` parameter *)
(* within the bounds.                                                      *)
(***************************************************************************)
QuestionIds == {"q1", "q2"}
\* answers: 1, 2, "2", "a"
AnswerValues == {Num(1), Num(2), Str(<<50>>), Str(<<97>>)}
\* condition values: 1, "2"
ConditionValues == {Num(1), Str(<<50>>)}
ConditionKinds == {"equals", "does_not_equal", "greater_than", "less_than"}

Questions == [id : QuestionIds, value : AnswerValues]
Clauses == [id : QuestionIds, condition : ConditionKinds, value : ConditionValues]

\* the question lists of the records: all of them for datasets of at most one
\* record, these few for longer datasets
QuestionLists == SeqUpTo(Questions, MaxQuestions)
FewQuestionLists ==
    { <<>>,
      << [id |-> "q1", value |-> Num(1)] >>,
      << [id |-> "q1", value |-> Num(2)], [id |-> "q2", value |-> Str(<<97>>)] >> }

\* the record at position k of a dataset carries k as its identifier
AsDataset(lists) ==
    [k \in DOMAIN lists |-> [submissionId |-> k, questions |-> lists[k]]]

StudyData ==
    {AsDataset(ls) : ls \in SeqUpTo(QuestionLists, 1) \cup SeqUpTo(FewQuestionLists, MaxData)}

StudyFilters ==
    {NoFilters} \cup {Filters(cs) : cs \in SeqUpTo(Clauses, MaxFilters)}

InitFilter ==
    /\ cache = <<>>
    /\ queue = <<>>
    /\ req = [s \in Slots |-> IdleFrame]
    /\ issued = 0
    /\ puts = 0
    /\ insertedAt = <<>>
    /\ fetched = <<>>
    /\ fIn \in [data : StudyData, filters : StudyFilters]
    /\ fOut = NotRun
    /\ wIn = NoWindowStudy
    /\ wOut = NoPayload

\* lines 155-186 applied to the drawn inputs
ApplyFilter ==
    /\ ~fOut.done
    /\ fOut' = [done |-> TRUE, responses |-> FilterStep(fIn.data, fIn.filters)]
    /\ UNCHANGED <<cache, queue, req, issued, puts, insertedAt, fetched, fIn, wIn, wOut>>

NextFilter == ApplyFilter

SpecFilter == InitFilter /\ [][NextFilter]_vars


(***************************************************************************)
(* The handler's tail on its own (lines 146-192): filter, window, payload, *)
(* for every dataset, offset and limit within the bounds.                  *)
(***************************************************************************)
WindowData == {AsDataset(ls) : ls \in SeqUpTo(FewQuestionLists, MaxWindowData)}

WindowFilters ==
    { NoFilters,
      Filters(<< [id |-> "q1", condition |-> "greater_than", value |-> Num(1)] >>) }

\* offset passes isInt() (line 97), which admits negative integers
WindowOffsets == {Absent} \cup {Given(n) : n \in -1..MaxOffset}

\* limit passes isInt({ min: 0, max: 150 }) (line 94)
WindowLimits == {Absent} \cup {Given(n) : n \in 0..MaxLimit} \cup {Given(defaultLimit)}

InitWindow ==
    /\ cache = <<>>
    /\ queue = <<>>
    /\ req = [s \in Slots |-> IdleFrame]
    /\ issued = 0
    /\ puts = 0
    /\ insertedAt = <<>>
    /\ fetched = <<>>
    /\ fIn = NoStudy
    /\ fOut = NotRun
    /\ wIn \in [data : WindowData, filters : WindowFilters,
                offset : WindowOffsets, limit : WindowLimits]
    /\ wOut = NoPayload

\* lines 146-192 applied to the drawn inputs
ApplyWindow ==
    /\ wOut.kind = "none"
    /\ wOut' = Respond(wIn.data, [filters |-> wIn.filters, offset |-> wIn.offset, limit |-> wIn.limit])
    /\ UNCHANGED <<cache, queue, req, issued, puts, insertedAt, fetched, fIn, fOut, wIn>>

NextWindow == ApplyWindow

SpecWindow == InitWindow /\ [][NextWindow]_vars

(***************************************************************************)
(* Properties.                                                             *)
(***************************************************************************)
\* the requests that missed the cache and whose page requests all succeeded
Succeeded(s) ==
    /\ req[s].pc = "done"
    /\ ~req[s].hit
    /\ req[s].result.kind = "data"

\* C1: after a miss whose page requests all succeed, the pages were asked
\* for at offsets 0, 150, ... one per reported page, and the accumulated and
\* cached dataset is the concatenation of all pageCount pages in order.
C1_FetchesAllPages ==
    \A s \in Slots :
        Succeeded(s) =>
            /\ req[s].asked = [k \in 1..RemotePageCount(req[s].id) |-> pageStep * (k - 1)]
            /\ req[s].responses = PagesUpTo(req[s].id, RemotePageCount(req[s].id))

\* every clause of the Filter Set holds for every question of the record it
\* names
AllClausesHold(response, clauses) ==
    \A c \in DOMAIN clauses :
        \A k \in DOMAIN response.questions :
            response.questions[k].id = clauses[c].id
                => Check(response.questions[k], clauses[c])

\* the record is among the filter step's output
Kept(response) ==
    \E j \in DOMAIN fOut.responses : fOut.responses[j] = response

\* C2: with a Filter Set, a record is kept if and only if every condition of
\* the set whose id matches a question of the record holds for that
\* question's value, also when several conditions name the same id.
C2_KeptIffAllConditionsHold ==
    (fOut.done /\ fIn.filters.present) =>
        \A k \in DOMAIN fIn.data :
            Kept(fIn.data[k]) <=> AllClausesHold(fIn.data[k], fIn.filters.clauses)

\* C3: the cache never holds more than maxLen entries and the queue never
\* more than maxLen keys, whatever the interleaving of the requests.
C3_CapacityBound ==
    /\ Cardinality(DOMAIN cache) <= maxLen
    /\ Len(queue) <= maxLen

\* C3 witness: after an eviction the queue is full again, and two concurrent
\* misses have left one key in two of its slots
C3_Witness ==
    /\ puts > maxLen
    /\ Len(queue) = maxLen
    /\ \E a, b \in DOMAIN queue : a < b /\ queue[a] = queue[b]

\* the held entry whose value was inserted earliest
EarliestHeld ==
    CHOOSE k \in DOMAIN cache : \A j \in DOMAIN cache : insertedAt[k] <= insertedAt[j]

\* the key the cacheData call of this step inserts
Inserted(k) == k \in DOMAIN insertedAt' /\ insertedAt'[k] = puts'

\* C4: with requests served one after another, a cacheData call on a full
\* cache evicts exactly the entry inserted earliest (so entries leave in the
\* order they came), a call below capacity evicts nothing, and a step that
\* makes no cacheData call -- a cache hit among them -- changes neither the
\* map nor the queue order.
C4_FifoNotLru ==
    [][ /\ (puts' = puts + 1 /\ Cardinality(DOMAIN cache) = maxLen) =>
              \E k \in DOMAIN cache' :
                  /\ Inserted(k)
                  /\ EarliestHeld \notin DOMAIN cache'
                  /\ DOMAIN cache' = (DOMAIN cache \ {EarliestHeld}) \cup {k}
                  /\ queue' = Append(Tail(queue), k)
        /\ (puts' = puts + 1 /\ Cardinality(DOMAIN cache) < maxLen) =>
              \E k \in DOMAIN cache' :
                  /\ Inserted(k)
                  /\ DOMAIN cache' = DOMAIN cache \cup {k}
                  /\ queue' = Append(queue, k)
        /\ puts' = puts => (cache' = cache /\ queue' = queue)
      ]_vars

\* C4 witness: the 11th identity has been inserted after a life of hits on
\* identity 1, and identity 1, the first one inserted, is the one that left
C4_Witness ==
    /\ puts = maxLen + 1
    /\ KeyOf(1) \notin DOMAIN cache
    /\ queue = [k \in 1..maxLen |-> KeyOf(k + 1)]

\* C5: every cacheData call made when the queue is full removes exactly one
\* held entry, the one whose held value was inserted earliest among the
\* entries in the cache, also after concurrent misses on one key.
C5_EvictsEarliestHeld ==
    [][ (puts' = puts + 1 /\ Len(queue) = maxLen) =>
            \E k \in DOMAIN cache' :
                /\ Inserted(k)
                /\ DOMAIN cache' = (DOMAIN cache \ {EarliestHeld}) \cup {k}
      ]_vars


\* distinct identities have distinct keys
KeysDistinct ==
    \A i, j \in Identities : i # j => KeyOf(i) # KeyOf(j)

\* C6: a request that arrives while its identity's entry is in the cache
\* answers in the same step without asking the remote API for any page,
\* whatever its filters, offset and limit, and works on the dataset the
\* latest complete fetch for that same identity assembled; distinct
\* identities have distinct keys, so no request reads another identity's
\* entry.
C6_HitServesOwnDataset ==
    [][ /\ KeysDistinct
        /\ \A s \in Slots :
               ( /\ req[s].pc = "idle"
                 /\ req'[s].pc # "idle"
                 /\ KeyOf(req'[s].id) \in DOMAIN cache )
               => /\ req'[s].pc = "done"
                  /\ req'[s].asked = <<>>
                  /\ req'[s].result.kind = "data"
                  /\ req'[s].id \in DOMAIN fetched
                  /\ req'[s].responses = fetched[req'[s].id]
      ]_vars

\* C6 witness: a hit served with a filter that drops a record: no page was
\* asked for, the request worked on the fetched dataset, and the payload
\* counts fewer records than that dataset holds
C6_Witness ==
    \E s \in Slots :
        /\ req[s].pc = "done"
        /\ req[s].hit
        /\ req[s].asked = <<>>
        /\ req[s].responses = fetched[req[s].id]
        /\ req[s].result.totalResponses < Len(req[s].responses)

\* C7: the step in which a request stops fetching without having taken in a
\* page -- a failed page request, whichever page it is -- ends the request
\* with the payload {error: 'Request failed!'} carrying no record, asks for
\* no further page, and leaves the cache map and the queue as they were.
C7_FailureAbortsCleanly ==
    [][ \A s \in Slots :
            ( /\ req[s].pc = "fetching"
              /\ req'[s].pc # "fetching"
              /\ req'[s].offset = req[s].offset )
            => /\ req'[s].pc = "done"
               /\ req'[s].result = ErrorPayload
               /\ req'[s].asked = req[s].asked
               /\ cache' = cache
               /\ queue' = queue
      ]_vars

\* C7 witness: a request has failed on its second page, after the first page
\* had been taken in, and its key is not in the cache
C7_Witness ==
    \E s \in Slots :
        /\ req[s].pc = "done"
        /\ req[s].result = ErrorPayload
        /\ req[s].asked = <<0, pageStep>>
        /\ req[s].responses # <<>>
        /\ KeyOf(req[s].id) \notin DOMAIN cache

\* C8: a cache-miss request for an identity whose dataset has 3 pages, the
\* second of which can never be fetched, ends with {error: "Request failed!"}
\* and leaves no cache entry for its key.
C8_SecondPageFailureFailsRequest ==
    \A s \in Slots :
        ( /\ req[s].pc = "done"
          /\ ~req[s].hit
          /\ RemotePageCount(req[s].id) = 3
          /\ Unfetchable(req[s].id, 1) )
        => /\ req[s].result = ErrorPayload
           /\ KeyOf(req[s].id) \notin DOMAIN cache

\* the output is a subsequence of the dataset: its records are records of the
\* dataset, at strictly increasing positions
IsSubsequence(out, data) ==
    /\ \A j \in DOMAIN out :
           /\ out[j].submissionId \in DOMAIN data
           /\ data[out[j].submissionId] = out[j]
    /\ \A j, k \in DOMAIN out : j < k => out[j].submissionId < out[k].submissionId

\* C9: the filter step returns a subsequence of the dataset, and returns the
\* dataset unchanged for an empty Filter Set and for no filters parameter.
C9_SubsequenceAndIdentity ==
    fOut.done =>
        /\ IsSubsequence(fOut.responses, fIn.data)
        /\ (~fIn.filters.present \/ fIn.filters.clauses = <<>>)
               => fOut.responses = fIn.data

\* C9 witness: of two records the filter step has dropped the first and kept
\* the second
C9_Witness ==
    /\ fOut.done
    /\ fIn.filters.present
    /\ Len(fIn.data) = 2
    /\ fOut.responses = <<fIn.data[2]>>

\* the record has exactly one answer to question q, of the type of v
OneAnswerOfType(response, q, v) ==
    /\ Cardinality({k \in DOMAIN response.questions : response.questions[k].id = q}) = 1
    /\ \A k \in DOMAIN response.questions :
           response.questions[k].id = q => response.questions[k].value.t = v.t

\* the filter step on a single record under a single condition keeps it
KeptUnder(response, q, kind, v) ==
    FilterStep(<<response>>, Filters(<< [id |-> q, condition |-> kind, value |-> v] >>))
        = <<response>>

\* C10: under a single condition {q equals v}, a record with one answer to q
\* of v's type is kept exactly when {q does_not_equal v} does not keep it;
\* and a record with no question q is kept by a single condition on q of any
\* of the four kinds.
C10_EqualsComplementAndAbsence ==
    (fOut.done /\ fIn.filters.present /\ Len(fIn.filters.clauses) = 1 /\ Len(fIn.data) = 1) =>
        LET c == fIn.filters.clauses[1]
            r == fIn.data[1]
        IN /\ (c.condition = "equals" /\ OneAnswerOfType(r, c.id, c.value))
                 => (Kept(r) <=> ~KeptUnder(r, c.id, "does_not_equal", c.value))
           /\ (\A k \in DOMAIN r.questions : r.questions[k].id # c.id)
                 => Kept(r)

\* C10 witness: the record answers q1 with the condition's own value, and the
\* equals condition has kept it
C10_Witness ==
    /\ fOut.done
    /\ fIn.filters.present
    /\ Len(fIn.filters.clauses) = 1
    /\ Len(fIn.data) = 1
    /\ fIn.filters.clauses[1].condition = "equals"
    /\ OneAnswerOfType(fIn.data[1], fIn.filters.clauses[1].id, fIn.filters.clauses[1].value)
    /\ Len(fIn.data[1].questions) = 2
    /\ Kept(fIn.data[1])


\* C11: for a filtered dataset of length L, an offset >= 0 and a limit in
\* 0..150 (defaults 0 and 150), the payload's responses are the records at
\* positions offset .. min(offset + limit, L) - 1 of the filtered dataset,
\* totalResponses is L, for limit >= 1 pageCount is the ceiling of L / limit,
\* and the payload is never an error.
C11_WindowIsOffsetLimitSlice ==
    (wOut.kind # "none" /\ (wIn.offset.present => wIn.offset.n >= 0)) =>
        LET F == FilterStep(wIn.data, wIn.filters)
            L == Len(F)
            o == IF wIn.offset.present THEN wIn.offset.n ELSE 0
            l == IF wIn.limit.present THEN wIn.limit.n ELSE 150
            stop == IF o + l < L THEN o + l ELSE L
            count == IF stop > o THEN stop - o ELSE 0
        IN /\ wOut.kind = "data"
           /\ wOut.responses = [k \in 1..count |-> F[o + k]]
           /\ Len(wOut.responses) <= l
           /\ wOut.totalResponses = L
           /\ l >= 1 => /\ wOut.pageCount * l >= L
                        /\ (wOut.pageCount - 1) * l < L

\* C11 witness: a filter has dropped a record, and with offset 1 and limit 1
\* the payload holds the second of the two remaining records, on 2 pages
C11_Witness ==
    /\ wOut.kind = "data"
    /\ wIn.offset = Given(1)
    /\ wIn.limit = Given(1)
    /\ wOut.totalResponses = 2
    /\ Len(wIn.data) = 3
    /\ Len(wOut.responses) = 1
    /\ wOut.responses[1] = FilterStep(wIn.data, wIn.filters)[2]
    /\ wOut.pageCount = 2

\* C12: in every reachable state the value the cache holds under an
\* identity's key is the dataset the fetch for that identity accumulated,
\* whole pages of the remote dataset in order, neither filtered nor windowed:
\* no request's filters, offset or limit, be it the populating request or a
\* later hit, changes the stored value.
C12_CacheHoldsUnfilteredDataset ==
    \A i \in Identities :
        KeyOf(i) \in DOMAIN cache =>
            /\ i \in DOMAIN fetched
            /\ cache[KeyOf(i)] = fetched[i]
            /\ \E n \in 1..RemotePageCount(i) : cache[KeyOf(i)] = PagesUpTo(i, n)

\* C12 witness: a request populated the cache and was answered with a filter
\* and a limit that leave fewer records than were fetched, another request
\* hit the same entry with a filter that drops a record, and the entry still
\* holds every fetched record
C12_Witness ==
    \E s, t \in Slots :
        /\ req[s].pc = "done" /\ ~req[s].hit /\ req[s].result.kind = "data"
        /\ req[t].pc = "done" /\ req[t].hit /\ req[t].id = req[s].id
        /\ req[s].result.totalResponses < Len(req[s].responses)
        /\ req[t].result.totalResponses < Len(req[t].responses)
        /\ KeyOf(req[s].id) \in DOMAIN cache
        /\ cache[KeyOf(req[s].id)] = req[s].responses
        /\ Len(cache[KeyOf(req[s].id)]) > req[s].result.totalResponses

\* the record has exactly one answer to the question, and it is v
OneAnswer(response, q, v) ==
    /\ Cardinality({k \in DOMAIN response.questions : response.questions[k].id = q}) = 1
    /\ \A k \in DOMAIN response.questions :
           response.questions[k].id = q => response.questions[k].value = v

\* the filter step has run on one record under one greater_than or less_than
\* condition, the record has one answer to the condition's question, and
\* one of answer and condition value is a number, the other a string
MismatchedComparison(answer) ==
    /\ fOut.done
    /\ fIn.filters.present
    /\ Len(fIn.filters.clauses) = 1
    /\ Len(fIn.data) = 1
    /\ fIn.filters.clauses[1].condition \in {"greater_than", "less_than"}
    /\ OneAnswer(fIn.data[1], fIn.filters.clauses[1].id, answer)
    /\ answer.t # fIn.filters.clauses[1].value.t

IsNumeral(v) == v.t = "string" /\ \A k \in DOMAIN v.s : IsDigit(v.s[k])

Answered(f) ==
    IF f.pc = "done" /\ ~f.hit /\ f.result.kind # "data"
    THEN f.offset \div pageStep + 1
    ELSE f.offset \div pageStep

\* C14: a request asks for its pages at the offsets 0, 150, 300, ... in this
\* order and one at a time: while it is fetching exactly one page request is
\* outstanding, once it is done none is, and a further page is asked for only
\* in the step in which the answer to the previous one arrives, whatever the
\* other requests do in between.
C14_PagesOneAtATimeInOrder ==
    /\ [](\A s \in Slots :
            LET f == req[s]
            IN /\ f.asked = [k \in 1..Len(f.asked) |-> pageStep * (k - 1)]
               /\ f.pc = "fetching" => Len(f.asked) - Answered(f) = 1
               /\ f.pc # "fetching" => Len(f.asked) - Answered(f) = 0)
    /\ [][ \A s \in Slots :
               (req[s].pc = "fetching" /\ req'[s].asked # req[s].asked) =>
                   /\ req'[s].asked = Append(req[s].asked, req[s].offset + pageStep)
                   /\ Answered(req'[s]) = Answered(req[s]) + 1
         ]_vars

\* C14 witness: a request has asked for offset 0 and then for offset 150 and
\* waits for that page, while another request waits for its first page
C14_Witness ==
    \E s, t \in Slots :
        /\ s # t
        /\ req[s].pc = "fetching"
        /\ req[s].asked = <<0, 150>>
        /\ Len(req[s].responses) > 0
        /\ req[t].pc = "fetching"
        /\ req[t].asked = <<0>>

\* the queue slots that hold the key
SlotsOf(q, key) == {k \in DOMAIN q : q[k] = key}

\* C15: nothing keeps a second request for an identity from fetching while a
\* first one is in flight, and every request that completes its fetch calls
\* cacheData whether or not the key is in the map by then: the step stores the
\* request's dataset under the key and appends a queue slot for it (after
\* dropping the head of a full queue), so two concurrent misses on one
\* identity leave one entry and two queue slots.
C15_EveryCompletedFetchPuts ==
    [][ \A s \in Slots :
            ( /\ req[s].pc = "fetching"
              /\ req'[s].pc = "done"
              /\ req'[s].result.kind = "data" )
            => LET key == KeyOf(req[s].id)
                   kept == IF Len(queue) = maxLen THEN Tail(queue) ELSE queue
               IN /\ queue' = Append(kept, key)
                  /\ key \in DOMAIN cache'
                  /\ cache'[key] = req'[s].responses
                  /\ Cardinality(SlotsOf(queue', key)) = Cardinality(SlotsOf(kept, key)) + 1
      ]_vars

\* C15 witness: two requests for the same identity both missed, both fetched
\* the dataset and both were answered with data; the map holds one entry for
\* the key and the queue holds the key in two slots
C15_Witness ==
    \E s, t \in Slots :
        /\ s # t
        /\ req[s].id = req[t].id
        /\ req[s].pc = "done" /\ ~req[s].hit /\ req[s].result.kind = "data"
        /\ req[t].pc = "done" /\ ~req[t].hit /\ req[t].result.kind = "data"
        /\ req[s].asked = <<0>> /\ req[t].asked = <<0>>
        /\ KeyOf(req[s].id) \in DOMAIN cache
        /\ Cardinality(DOMAIN cache) = 1
        /\ queue = <<KeyOf(req[s].id), KeyOf(req[s].id)>>

\* C16: when every page request is eventually answered, every request that
\* fetches eventually sends its response, and sends one only: a step that
\* takes in a page asks for a further page exactly when the advanced offset
\* is below the pageCount of the page just taken in, and otherwise sends the
\* data; a failed page sends the error; a sent response is never followed by
\* another one of the same request.
C16_EveryRequestRespondsOnce ==
    /\ \A s \in Slots : (req[s].pc = "fetching") ~> (req[s].pc = "done")
    /\ [][ \A s \in Slots :
               /\ (req[s].pc = "fetching" /\ req'[s] # req[s]) =>
                      LET reported == RemoteResponse(req[s].id, req[s].offset).pageCount
                      IN \/ /\ req'[s].pc = "fetching"
                            /\ req'[s].offset = req[s].offset + 150
                            /\ req'[s].offset < reported
                         \/ /\ req'[s].pc = "done"
                            /\ req'[s].result.kind = "data"
                            /\ req'[s].offset = req[s].offset + 150
                            /\ req'[s].offset >= reported
                         \/ /\ req'[s].pc = "done"
                            /\ req'[s].result = ErrorPayload
                            /\ req'[s].offset = req[s].offset
               /\ (req[s].pc = "done" /\ req'[s] # req[s]) => req'[s].pc = "idle"
         ]_vars

\* C16 witness: a request took in two pages, the second reporting a
\* pageCount (151) that the offset 300 has reached, and was answered with
\* the data of both pages
C16_Witness ==
    \E s \in Slots :
        /\ req[s].pc = "done"
        /\ req[s].asked = <<0, 150>>
        /\ req[s].offset = 300
        /\ req[s].totalPages = 151
        /\ req[s].result.kind = "data"
        /\ req[s].responses = PagesUpTo(req[s].id, 2)

\* C17: a request that hits the cache leaves the map and the queue as they
\* were; the map or the queue change only in the step in which a request
\* takes in its last page, by the one cacheData call of that step, which
\* stores the dataset of all the pages the request asked for; between pages
\* nothing is stored, so the map never holds a partly fetched dataset.
C17_CacheChangesOnlyAtEndOfFetch ==
    [][ /\ \A s \in Slots :
               (req[s].pc = "idle" /\ req'[s].pc = "done" /\ req'[s].hit)
                   => cache' = cache /\ queue' = queue
        /\ \A s \in Slots :
               (req[s].pc = "fetching" /\ req'[s].pc = "fetching" /\ req'[s] # req[s])
                   => cache' = cache /\ queue' = queue
        /\ (cache' # cache \/ queue' # queue) =>
               \E s \in Slots :
                   /\ req[s].pc = "fetching"
                   /\ req'[s].pc = "done"
                   /\ req'[s].result.kind = "data"
                   /\ req'[s].offset >= req'[s].totalPages
                   /\ req'[s].responses = PagesUpTo(req[s].id, Len(req[s].asked))
                   /\ puts' = puts + 1
                   /\ cache' = cacheData(cache, queue, KeyOf(req[s].id), req'[s].responses).cache
                   /\ queue' = cacheData(cache, queue, KeyOf(req[s].id), req'[s].responses).queue
      ]_vars

\* C17 witness: a request that fetched two pages has stored them in one
\* piece, a second request has hit the cache since, and map and queue hold
\* one entry and one slot per cacheData call made
C17_Witness ==
    \E s, t \in Slots :
        /\ req[s].pc = "done" /\ ~req[s].hit
        /\ Len(req[s].asked) = 2
        /\ KeyOf(req[s].id) \in DOMAIN cache
        /\ cache[KeyOf(req[s].id)] = PagesUpTo(req[s].id, 2)
        /\ req[t].pc = "done" /\ req[t].hit
        /\ Len(queue) = puts
        /\ Cardinality(DOMAIN cache) = puts

\* C18: in every reachable state every key of the cache map is held by at
\* least one queue slot, the map has no more entries than the queue has
\* slots, and no entry is older than maxLen - 1 cacheData calls: the call
\* that would make it maxLen calls old removes it (or stores it anew).
C18_EntriesHaveSlotsAndBoundedAge ==
    /\ \A k \in DOMAIN cache : SlotsOf(queue, k) # {}
    /\ Cardinality(DOMAIN cache) <= Len(queue)
    /\ \A k \in DOMAIN cache :
           /\ k \in DOMAIN insertedAt
           /\ puts - insertedAt[k] <= maxLen - 1

\* C18 witness: after an eviction the queue is full, one of its slots holds
\* a key the map no longer holds, so the map has fewer entries than the queue
\* has slots, and an entry stored maxLen - 1 calls ago is still held
C18_Witness ==
    /\ puts > maxLen
    /\ Len(queue) = maxLen
    /\ Cardinality(DOMAIN cache) < Len(queue)
    /\ \E j \in DOMAIN queue : queue[j] \notin DOMAIN cache
    /\ \E k \in DOMAIN cache : puts - insertedAt[k] = maxLen - 1

=============================================================================
